---- MODULE Spec2Model ----
(***************************************************************************)
(* PixelPeek: the answer validator (advancedAnswerValidator.js) and the    *)
(* round logic (GameBoard.handleGuess / loadNewImage over gameReducer).    *)
(*                                                                         *)
(* Strings are sequences of one-character strings over Alphabet.  Ratios   *)
(* (confidences, similarity scores) are pairs <<num, den>>; <<0, 0>> is    *)
(* the NaN that 0/0 yields in JavaScript.                                  *)
(***************************************************************************)
EXTENDS Integers, Sequences, FiniteSets, TLC

(***************************************************************************)
(* Program constants                                                       *)
(***************************************************************************)
MAX_ATTEMPTS == 5
BLUR_DECREMENT == 4
INITIAL_BLUR == 20
SCORE_DECREMENT == 15
INITIAL_SCORE == 100
HINT_LEVEL_CAP == 4

(***************************************************************************)
(* Bounds of the model                                                     *)
(***************************************************************************)
MaxLen == 2          \* every string over Alphabet up to this length
LongLen == 20        \* length of the long answers added to the inputs
MaxInFlight == 2     \* handleGuess invocations suspended at an await
MaxLoads == 2        \* loadNewImage invocations suspended at an await
MaxRounds == 2       \* loadNewImage invocations in one behaviour
MaxUpsets == 2       \* irregular events in one behaviour: a click made while an
                     \* earlier click's work is pending, or a failed or unusable
                     \* reply of a remote service

Alphabet == {"a", "b", "A", " ", "!"}

Min2(x, y) == IF x <= y THEN x ELSE y
Max2(x, y) == IF x >= y THEN x ELSE y
Min3(x, y, z) == Min2(x, Min2(y, z))

(***************************************************************************)
(* JavaScript string primitives                                            *)
(***************************************************************************)
LowerChar(c) == IF c = "A" THEN "a" ELSE c
IsSpaceChar(c) == c = " "
IsWordChar(c) == c \in {"a", "b", "A"}

toLowerCase(s) == [i \in 1..Len(s) |-> LowerChar(s[i])]

RECURSIVE trimStart(_)
trimStart(s) ==
  IF s # <<>> /\ IsSpaceChar(Head(s)) THEN trimStart(Tail(s)) ELSE s

RECURSIVE trimEnd(_)
trimEnd(s) ==
  IF s # <<>> /\ IsSpaceChar(s[Len(s)])
  THEN trimEnd(SubSeq(s, 1, Len(s) - 1)) ELSE s

trim(s) == trimEnd(trimStart(s))

includes(s, t) ==
  \E k \in 0..(Len(s) - Len(t)) : SubSeq(s, k + 1, k + Len(t)) = t

(***************************************************************************)
(* levenshteinDistance.  Array(len2 + 1).fill(null).map(() =>              *)
(* Array(len1 + 1).fill(0)) makes every cell 0; the two border loops set   *)
(* row 0 and column 0; the nested loops then assign the inner cells row by *)
(* row.  The second operand of Math.min reads matrix[j][i] itself, which   *)
(* at that point still holds the value it was created with.               *)
(*                                                                         *)
(* The matrix is the sequence of its rows 0..j-1 and a row the sequence of *)
(* its cells 0..i-1 assigned so far: matrix[j][i] is rows[j + 1][i + 1].   *)
(* Each iteration hands the extended row (matrix) on as the element of a   *)
(* singleton set, so that it is computed once, before the next iteration.  *)
(***************************************************************************)
\* line 17: Array(len1 + 1).fill(0)
FillValue == 0

\* lines 24-29: the value assigned to matrix[j][i]
LevCell(above, row, str1, str2, j, i) ==
  LET indicator == IF str1[i] = str2[j] THEN 0 ELSE 1
  IN  Min3(row[i] + 1,
           FillValue + 1,
           above[i] + indicator)

\* the inner loop, lines 23-30, on row j: the next cell is i = Len(row)
RECURSIVE LevRow(_, _, _, _, _)
LevRow(above, row, str1, str2, j) ==
  IF Len(row) > Len(str1) THEN row
  ELSE LET assigned == {Append(row, LevCell(above, row, str1, str2, j, Len(row)))}
       IN  CHOOSE done \in {LevRow(above, next, str1, str2, j) : next \in assigned} :
             TRUE

\* the outer loop, lines 22-31: the next row is j = Len(rows); line 20 has
\* put j into its cell 0
RECURSIVE LevRows(_, _, _)
LevRows(rows, str1, str2) ==
  IF Len(rows) > Len(str2) THEN rows
  ELSE LET filled == {Append(rows, LevRow(rows[Len(rows)], <<Len(rows)>>,
                                          str1, str2, Len(rows)))}
       IN  CHOOSE done \in {LevRows(next, str1, str2) : next \in filled} : TRUE

levenshteinDistance(str1, str2) ==
  LET row0 == [i \in 1..(Len(str1) + 1) |-> i - 1]
  IN  LevRows(<<row0>>, str1, str2)[Len(str2) + 1][Len(str1) + 1]

(***************************************************************************)
(* The textbook edit distance (insert, delete, substitute, each cost 1):   *)
(* the reference the claims compare levenshteinDistance to.                *)
(***************************************************************************)
RECURSIVE EditRow(_, _, _, _)
EditRow(above, row, str1, c) ==
  IF Len(row) > Len(str1) THEN row
  ELSE LET i == Len(row)
           assigned == {Append(row, Min3(row[i] + 1, above[i + 1] + 1,
                                         above[i] + (IF str1[i] = c THEN 0 ELSE 1)))}
       IN  CHOOSE done \in {EditRow(above, next, str1, c) : next \in assigned} : TRUE

RECURSIVE EditRows(_, _, _)
EditRows(rows, str1, str2) ==
  IF Len(rows) > Len(str2) THEN rows
  ELSE LET filled == {Append(rows, EditRow(rows[Len(rows)], <<Len(rows)>>,
                                           str1, str2[Len(rows)]))}
       IN  CHOOSE done \in {EditRows(next, str1, str2) : next \in filled} : TRUE

EditDistance(str1, str2) ==
  LET row0 == [i \in 1..(Len(str1) + 1) |-> i - 1]
  IN  EditRows(<<row0>>, str1, str2)[Len(str2) + 1][Len(str1) + 1]

(***************************************************************************)
(* Ratios                                                                  *)
(***************************************************************************)
Ratio(n, d) == <<n, d>>
IsNaN(r) == r[2] = 0
\* r >= p/q as JavaScript evaluates it: false whenever r is NaN
RatioGE(r, p, q) == ~IsNaN(r) /\ r[1] * q >= p * r[2]
RatioEq(r, s) == ~IsNaN(r) /\ ~IsNaN(s) /\ r[1] * s[2] = s[1] * r[2]
\* Math.max(r, s): NaN if either operand is NaN
RatioMax(r, s) ==
  IF IsNaN(r) \/ IsNaN(s) THEN Ratio(0, 0)
  ELSE IF r[1] * s[2] >= s[1] * r[2] THEN r ELSE s

(***************************************************************************)
(* fuzzyMatchScore, tokenizeAndNormalize, jaccardSimilarity                *)
(***************************************************************************)
fuzzyMatchScore(guess, answer) ==
  LET maxLen == Max2(Len(guess), Len(answer))
  IN  IF maxLen = 0 THEN Ratio(1, 1)
      ELSE Ratio(maxLen - levenshteinDistance(guess, answer), maxLen)

\* .replace(/[^\w\s]/g, ""): keep word characters and whitespace
StripNonWord(s) == SelectSeq(s, LAMBDA c : IsWordChar(c) \/ IsSpaceChar(c))

\* .split(/\s+/).filter(t => t.length > 0): the maximal runs of non-space
RECURSIVE SplitTokens(_, _, _)
SplitTokens(s, cur, acc) ==
  IF s = <<>> THEN (IF cur = <<>> THEN acc ELSE Append(acc, cur))
  ELSE IF IsSpaceChar(Head(s))
       THEN SplitTokens(Tail(s), <<>>, IF cur = <<>> THEN acc ELSE Append(acc, cur))
       ELSE SplitTokens(Tail(s), Append(cur, Head(s)), acc)

tokenizeAndNormalize(text) ==
  SplitTokens(StripNonWord(toLowerCase(text)), <<>>, <<>>)

SeqRange(q) == {q[i] : i \in 1..Len(q)}

jaccardSimilarity(tokens1, tokens2) ==
  LET set1 == SeqRange(tokens1)
      set2 == SeqRange(tokens2)
      intersection == {x \in set1 : x \in set2}
      union == set1 \cup set2
  IN  Ratio(Cardinality(intersection), Cardinality(union))

(***************************************************************************)
(* The remote judge.  A reply is what fetch / response.json / JSON.parse   *)
(* hand to validateAnswerAdvanced: the transport may throw, the status may *)
(* be non-OK, the body or the model's text may not be JSON, the JSON value *)
(* may be null, or an object whose isValid and confidence fields are       *)
(* present or missing.  confidence is in hundredths.                       *)
(***************************************************************************)
JudgeConfidences == {0, 84, 85, 100, 150}

JudgeResponses ==
  [kind : {"network_error", "http_error", "bad_json", "null"},
   isValid : {"missing"}, hasConfidence : {FALSE}, confidence : {0}]
  \cup
  [kind : {"object"}, isValid : {"true", "false", "missing"},
   hasConfidence : {TRUE}, confidence : JudgeConfidences]
  \cup
  [kind : {"object"}, isValid : {"true", "false", "missing"},
   hasConfidence : {FALSE}, confidence : {0}]

\* the acceptance test without its test of the confidence
judgeAcceptsAnyConfidence(resp) ==
  /\ resp.kind = "object"
  /\ resp.isValid = "true"

\* the acceptance test with the threshold one hundredth lower
judgeAcceptsLowerThreshold(resp) ==
  /\ resp.kind = "object"
  /\ resp.isValid = "true"
  /\ (IF resp.hasConfidence THEN resp.confidence ELSE 0) >= 84

\* the acceptance test taking a missing confidence for full confidence
judgeAcceptsMissingConfidence(resp) ==
  /\ resp.kind = "object"
  /\ resp.isValid = "true"
  /\ (IF resp.hasConfidence THEN resp.confidence ELSE 100) >= 85

\* result.isValid && (result.confidence || 0) >= 0.85, inside the try blocks
judgeAccepts(resp) ==
  /\ resp.kind = "object"
  /\ resp.isValid = "true"
  /\ (IF resp.hasConfidence THEN resp.confidence ELSE 0) >= 85

Verdict(isValid, confidence, strategy) ==
  [isValid |-> isValid, confidence |-> confidence, strategy |-> strategy]

\* the cascade without its word-overlap stage: the judge is asked right after
\* the fuzzy stage
validateLocalSkipsJaccard(userGuess, correctAnswer) ==
  LET normalizedGuess == trim(toLowerCase(userGuess))
      normalizedAnswer == trim(toLowerCase(correctAnswer))
      lenG == Len(normalizedGuess)
      lenA == Len(normalizedAnswer)
      matchRatio == Ratio(Min2(lenG, lenA), Max2(lenG, lenA))
      fuzzyScore == fuzzyMatchScore(normalizedGuess, normalizedAnswer)
      guessTokens == tokenizeAndNormalize(normalizedGuess)
      answerTokens == tokenizeAndNormalize(normalizedAnswer)
      jaccardScore == jaccardSimilarity(guessTokens, answerTokens)
      tokenCountMatch == Ratio(Min2(Len(guessTokens), Len(answerTokens)),
                               Max2(Len(guessTokens), Len(answerTokens)))
  IN  IF lenG = 0 THEN Verdict(FALSE, Ratio(0, 1), "EMPTY")
      ELSE IF normalizedGuess = normalizedAnswer
        THEN Verdict(TRUE, Ratio(1, 1), "EXACT")
      ELSE IF /\ (includes(normalizedGuess, normalizedAnswer)
                    \/ includes(normalizedAnswer, normalizedGuess))
              /\ RatioGE(matchRatio, 7, 10)
        THEN Verdict(TRUE, matchRatio, "SUBSTRING")
      ELSE IF RatioGE(fuzzyScore, 95, 100)
        THEN Verdict(TRUE, fuzzyScore, "FUZZY")
      ELSE [isValid |-> FALSE, confidence |-> RatioMax(fuzzyScore, jaccardScore),
            strategy |-> "AWAIT_JUDGE"]

\* the cascade with the substring stage accepting from half the length on
validateLocalSubstringHalf(userGuess, correctAnswer) ==
  LET normalizedGuess == trim(toLowerCase(userGuess))
      normalizedAnswer == trim(toLowerCase(correctAnswer))
      lenG == Len(normalizedGuess)
      lenA == Len(normalizedAnswer)
      matchRatio == Ratio(Min2(lenG, lenA), Max2(lenG, lenA))
      fuzzyScore == fuzzyMatchScore(normalizedGuess, normalizedAnswer)
      guessTokens == tokenizeAndNormalize(normalizedGuess)
      answerTokens == tokenizeAndNormalize(normalizedAnswer)
      jaccardScore == jaccardSimilarity(guessTokens, answerTokens)
      tokenCountMatch == Ratio(Min2(Len(guessTokens), Len(answerTokens)),
                               Max2(Len(guessTokens), Len(answerTokens)))
  IN  IF lenG = 0 THEN Verdict(FALSE, Ratio(0, 1), "EMPTY")
      ELSE IF normalizedGuess = normalizedAnswer
        THEN Verdict(TRUE, Ratio(1, 1), "EXACT")
      ELSE IF /\ (includes(normalizedGuess, normalizedAnswer)
                    \/ includes(normalizedAnswer, normalizedGuess))
              /\ RatioGE(matchRatio, 5, 10)
        THEN Verdict(TRUE, matchRatio, "SUBSTRING")
      ELSE IF RatioGE(fuzzyScore, 95, 100)
        THEN Verdict(TRUE, fuzzyScore, "FUZZY")
      ELSE IF RatioGE(jaccardScore, 95, 100) /\ RatioGE(tokenCountMatch, 6, 10)
        THEN Verdict(TRUE, jaccardScore, "JACCARD")
      ELSE [isValid |-> FALSE, confidence |-> RatioMax(fuzzyScore, jaccardScore),
            strategy |-> "AWAIT_JUDGE"]

\* the cascade with the word-overlap stage not comparing the word counts
validateLocalJaccardNoCount(userGuess, correctAnswer) ==
  LET normalizedGuess == trim(toLowerCase(userGuess))
      normalizedAnswer == trim(toLowerCase(correctAnswer))
      lenG == Len(normalizedGuess)
      lenA == Len(normalizedAnswer)
      matchRatio == Ratio(Min2(lenG, lenA), Max2(lenG, lenA))
      fuzzyScore == fuzzyMatchScore(normalizedGuess, normalizedAnswer)
      guessTokens == tokenizeAndNormalize(normalizedGuess)
      answerTokens == tokenizeAndNormalize(normalizedAnswer)
      jaccardScore == jaccardSimilarity(guessTokens, answerTokens)
      tokenCountMatch == Ratio(Min2(Len(guessTokens), Len(answerTokens)),
                               Max2(Len(guessTokens), Len(answerTokens)))
  IN  IF lenG = 0 THEN Verdict(FALSE, Ratio(0, 1), "EMPTY")
      ELSE IF normalizedGuess = normalizedAnswer
        THEN Verdict(TRUE, Ratio(1, 1), "EXACT")
      ELSE IF /\ (includes(normalizedGuess, normalizedAnswer)
                    \/ includes(normalizedAnswer, normalizedGuess))
              /\ RatioGE(matchRatio, 7, 10)
        THEN Verdict(TRUE, matchRatio, "SUBSTRING")
      ELSE IF RatioGE(fuzzyScore, 95, 100)
        THEN Verdict(TRUE, fuzzyScore, "FUZZY")
      ELSE IF RatioGE(jaccardScore, 95, 100)
        THEN Verdict(TRUE, jaccardScore, "JACCARD")
      ELSE [isValid |-> FALSE, confidence |-> RatioMax(fuzzyScore, jaccardScore),
            strategy |-> "AWAIT_JUDGE"]

(***************************************************************************)
(* validateAnswerAdvanced, strategies 1-4: returns the verdict of the      *)
(* first stage that decides, or strategy "AWAIT_JUDGE" with the two scores *)
(* when the function reaches its await on the judge's reply.               *)
(***************************************************************************)
validateLocal(userGuess, correctAnswer) ==
  LET normalizedGuess == trim(toLowerCase(userGuess))
      normalizedAnswer == trim(toLowerCase(correctAnswer))
      lenG == Len(normalizedGuess)
      lenA == Len(normalizedAnswer)
      matchRatio == Ratio(Min2(lenG, lenA), Max2(lenG, lenA))
      fuzzyScore == fuzzyMatchScore(normalizedGuess, normalizedAnswer)
      guessTokens == tokenizeAndNormalize(normalizedGuess)
      answerTokens == tokenizeAndNormalize(normalizedAnswer)
      jaccardScore == jaccardSimilarity(guessTokens, answerTokens)
      tokenCountMatch == Ratio(Min2(Len(guessTokens), Len(answerTokens)),
                               Max2(Len(guessTokens), Len(answerTokens)))
  IN  IF lenG = 0 THEN Verdict(FALSE, Ratio(0, 1), "EMPTY")
      ELSE IF normalizedGuess = normalizedAnswer
        THEN Verdict(TRUE, Ratio(1, 1), "EXACT")
      ELSE IF /\ (includes(normalizedGuess, normalizedAnswer)
                    \/ includes(normalizedAnswer, normalizedGuess))
              /\ RatioGE(matchRatio, 7, 10)
        THEN Verdict(TRUE, matchRatio, "SUBSTRING")
      ELSE IF RatioGE(fuzzyScore, 95, 100)
        THEN Verdict(TRUE, fuzzyScore, "FUZZY")
      ELSE IF RatioGE(jaccardScore, 95, 100) /\ RatioGE(tokenCountMatch, 6, 10)
        THEN Verdict(TRUE, jaccardScore, "JACCARD")
      ELSE [isValid |-> FALSE, confidence |-> RatioMax(fuzzyScore, jaccardScore),
            strategy |-> "AWAIT_JUDGE"]

\* strategy 5 and the final rejection, once the judge's reply is in
validateFinish(pending, resp) ==
  IF judgeAccepts(resp)
  THEN Verdict(TRUE, Ratio(resp.confidence, 100), "GEMINI_SEMANTIC")
  ELSE Verdict(FALSE, pending.confidence, "REJECTED")

validateAnswerAdvanced(userGuess, correctAnswer, resp) ==
  LET v == validateLocal(userGuess, correctAnswer)
  IN  IF v.strategy = "AWAIT_JUDGE" THEN validateFinish(v, resp) ELSE v

(***************************************************************************)
(* gameReducer.  imageUrl is left out: no handler reads it.                *)
(***************************************************************************)
EmptyString == <<>>

initialState ==
  [desc |-> EmptyString, label |-> EmptyString, guess |-> EmptyString,
   score |-> INITIAL_SCORE, attempts |-> 0, revealed |-> FALSE,
   loading |-> TRUE, blur |-> INITIAL_BLUR, hint |-> "Analyzing data...",
   hintLevel |-> 0, previousHints |-> <<>>, highScore |-> 0]

\* the reducer with RESET_GAME returning initialState, high score included
gameReducerResetsHighScore(s, type, payload) ==
  CASE type = "SET_LOADING" -> [s EXCEPT !.loading = payload]
    [] type = "SET_GUESS" -> [s EXCEPT !.guess = payload]
    [] type = "SET_BLUR" -> [s EXCEPT !.blur = payload]
    [] type = "SET_HINT" -> [s EXCEPT !.hint = payload]
    [] type = "SET_HINT_LEVEL" ->
         [s EXCEPT !.hintLevel = Min2(payload, HINT_LEVEL_CAP)]
    [] type = "ADD_PREVIOUS_HINT" ->
         [s EXCEPT !.previousHints = Append(s.previousHints, payload)]
    [] type = "INCREMENT_ATTEMPTS" -> [s EXCEPT !.attempts = s.attempts + 1]
    [] type = "DECREMENT_SCORE" ->
         [s EXCEPT !.score = Max2(0, s.score - payload)]
    [] type = "SET_SCORE" -> [s EXCEPT !.score = payload]
    [] type = "REVEAL_ANSWER" -> [s EXCEPT !.revealed = TRUE, !.blur = 0]
    [] type = "SET_HIGH_SCORE" -> [s EXCEPT !.highScore = payload]
    [] type = "SET_LABEL" -> [s EXCEPT !.label = payload]
    [] type = "SET_DESC" -> [s EXCEPT !.desc = payload]
    [] type = "RESET_GAME" -> initialState
    [] OTHER -> s

gameReducer(s, type, payload) ==
  CASE type = "SET_LOADING" -> [s EXCEPT !.loading = payload]
    [] type = "SET_GUESS" -> [s EXCEPT !.guess = payload]
    [] type = "SET_BLUR" -> [s EXCEPT !.blur = payload]
    [] type = "SET_HINT" -> [s EXCEPT !.hint = payload]
    [] type = "SET_HINT_LEVEL" ->
         [s EXCEPT !.hintLevel = Min2(payload, HINT_LEVEL_CAP)]
    [] type = "ADD_PREVIOUS_HINT" ->
         [s EXCEPT !.previousHints = Append(s.previousHints, payload)]
    [] type = "INCREMENT_ATTEMPTS" -> [s EXCEPT !.attempts = s.attempts + 1]
    [] type = "DECREMENT_SCORE" ->
         [s EXCEPT !.score = Max2(0, s.score - payload)]
    [] type = "SET_SCORE" -> [s EXCEPT !.score = payload]
    [] type = "REVEAL_ANSWER" -> [s EXCEPT !.revealed = TRUE, !.blur = 0]
    [] type = "SET_HIGH_SCORE" -> [s EXCEPT !.highScore = payload]
    [] type = "SET_LABEL" -> [s EXCEPT !.label = payload]
    [] type = "SET_DESC" -> [s EXCEPT !.desc = payload]
    [] type = "RESET_GAME" -> [initialState EXCEPT !.highScore = s.highScore]
    [] OTHER -> s

\* a run of dispatches made without an await in between
RECURSIVE Dispatch(_, _)
Dispatch(s, actions) ==
  IF actions = <<>> THEN s
  ELSE Dispatch(gameReducer(s, Head(actions)[1], Head(actions)[2]), Tail(actions))

(***************************************************************************)
(* CacheManager (cacheManager.js).  memoryCache is the Map, as a function  *)
(* on the keys it holds; accessOrder is the array; db is the object store  *)
(* of IndexedDB, as a function from the keys stored to their records, and  *)
(* dbOpen says that init() succeeded (this.db is set).  A cached value is  *)
(* identified by the time at which it was obtained.  The requests made to  *)
(* IndexedDB take effect in the order in which they are made; the result   *)
(* of a get reaches its onsuccess callback later.                          *)
(*                                                                         *)
(* used and returned are instrumentation: the keys of the memory cache in  *)
(* the order of their last use (set, or get answered from memory), and the *)
(* last result handed to a caller.                                         *)
(***************************************************************************)
MEMORY_CACHE_SIZE == 50

\* gameConfig.cache.ttl, in milliseconds
ttl == 1000 * 60 * 60 * 24

MaxCalls == 1        \* calls of the cache suspended at an await
MaxDays == 2         \* the clock runs from 0 to this many days

\* the keys that get, set and fetchImageFromUnsplash are called with
CacheKeys == {1, MEMORY_CACHE_SIZE + 1, MEMORY_CACHE_SIZE + 2}

\* undefined / null is the empty sequence, a value v is <<v>>
Nothing == <<>>

MapSet(m, key, value) ==
  [k \in DOMAIN m \cup {key} |-> IF k = key THEN value ELSE m[k]]

MapDelete(m, key) == [k \in DOMAIN m \ {key} |-> m[k]]

EmptyMap == [k \in {} |-> 0]

newCache(open) ==
  [memoryCache |-> EmptyMap, accessOrder |-> <<>>, db |-> EmptyMap,
   dbOpen |-> open, calls |-> <<>>, now |-> 0,
   used |-> <<>>, returned |-> [op |-> "none", key |-> 0, data |-> Nothing, at |-> 0]]

\* the accessed key stays where it is in the array
updateAccessOrderKeepsPlace(order, key) ==
  IF \E i \in 1..Len(order) : order[i] = key THEN order ELSE Append(order, key)

\* lines 115-118
updateAccessOrder(order, key) ==
  Append(SelectSeq(order, LAMBDA k : k # key), key)

\* lines 95-110
setMemory(c, key, value) ==
  LET added == MapSet(MapDelete(c.memoryCache, key), key, value)
      order == updateAccessOrder(c.accessOrder, key)
  IN  IF Cardinality(DOMAIN added) > MEMORY_CACHE_SIZE /\ order # <<>>
      THEN [c EXCEPT !.memoryCache = MapDelete(added, Head(order)),
                     !.accessOrder = Tail(order)]
      ELSE [c EXCEPT !.memoryCache = added, !.accessOrder = order]

\* store.put({ key, value, timestamp: Date.now() }), lines 79-88
dbPut(c, key, value) ==
  IF c.dbOpen
  THEN [c EXCEPT !.db = MapSet(c.db, key, [value |-> value, timestamp |-> c.now])]
  ELSE c

\* CacheManager.set, lines 75-90
cacheSet(c, key, value) == dbPut(setMemory(c, key, value), key, value)

\* the instrumentation after a step that used key and led to the cache c
Used(c, before, key) ==
  [c EXCEPT !.used = SelectSeq(Append(SelectSeq(before, LAMBDA k : k # key), key),
                               LAMBDA k : k \in DOMAIN c.memoryCache)]

Returned(c, op, key, data) ==
  [c EXCEPT !.returned = [op |-> op, key |-> key, data |-> data, at |-> c.now]]

(***************************************************************************)
(* fetchWithRetry (apiService.js).  fn is a function that, each time it is *)
(* called, resolves with a value or rejects with an error; the outcomes of *)
(* its calls and the timers set are kept in the order they were made.      *)
(***************************************************************************)
MaxRetries == 4      \* maxRetries ranges over 0..MaxRetries

\* delay, in milliseconds: 1000 is the default
RetryDelays == {1, 1000}

\* what fn can resolve with and reject with
FnValues == {"image 1", "image 2"}
FnErrors == {"error 1", "error 2"}

noRetry ==
  [maxRetries |-> 0, delay |-> 0, i |-> 0, pc |-> "idle", outcomes |-> <<>>,
   timers |-> <<>>, result |-> [kind |-> "none", value |-> ""]]

\* the loop test of line 137
loopContinues(i, maxRetries) == i < maxRetries

\* the test made one call too late
isLastAttemptOffByOne(i, maxRetries) == i = maxRetries

\* line 141: if (i === maxRetries - 1)
isLastAttempt(i, maxRetries) == i = maxRetries - 1

\* line 146: delay * Math.pow(2, i)
backoff(delay, i) == delay * 2^i

(***************************************************************************)
(* State                                                                   *)
(*   state    : the reducer state of GameProvider                          *)
(*   handlers : the handleGuess invocations suspended at an await, each    *)
(*              with the `state` its closure captured (st); fresh is       *)
(*              FALSE once RESET_GAME has replaced the round it was        *)
(*              submitted in                                               *)
(*   loads    : the loadNewImage invocations suspended at an await         *)
(*   probe    : instrumentation of the current round (calls of the         *)
(*              validator and of generateContextualHint, verdicts applied) *)
(*              and the kind of the last step                              *)
(*   budget   : what the behaviour has used of MaxRounds and MaxUpsets     *)
(*   match    : one call of validateAnswerAdvanced taken on its own: its   *)
(*              arguments, where it stands, its verdict, the number of     *)
(*              requests it sent to the judge and the judge's reply        *)
(*   cache    : the CacheManager singleton with its IndexedDB store, the   *)
(*              calls of it that are suspended at an await, and the clock  *)
(*   retry    : one call of fetchWithRetry: its arguments, its loop        *)
(*              variable, where it is suspended, the outcomes of its calls *)
(*              of fn, the timers it set, and what it returned or threw    *)
(***************************************************************************)
VARIABLES state, handlers, loads, probe, budget, match, cache, retry

vars == <<state, handlers, loads, probe, budget, match, cache, retry>>
roundVars == <<state, handlers, loads, probe, budget>>

\* what the image source can deliver: alt_description || description || category
Descriptions == {<<"a", "b">>}

\* what the player can have typed into the input
GuessInputs == {EmptyString, <<" ">>, <<"A", "b">>, <<"b">>}

\* the replies of the judge that a round distinguishes
RoundJudgeResponses ==
  {r \in JudgeResponses :
     \/ r.kind = "network_error"
     \/ r.isValid \in {"true", "false"} /\ r.hasConfidence /\ r.confidence \in {84, 85}}

NoVerdict == Verdict(FALSE, Ratio(0, 1), "NONE")

\* the judge has not replied
NoReply ==
  [kind |-> "none", isValid |-> "missing", hasConfidence |-> FALSE, confidence |-> 0]

noMatch ==
  [guess |-> EmptyString, answer |-> EmptyString, pc |-> "idle",
   verdict |-> NoVerdict, judgeCalls |-> 0, reply |-> NoReply]

initialProbe ==
  [lastOp |-> "mount", validatorCalls |-> 0, hintCalls |-> 0,
   wrongVerdicts |-> 0, accepted |-> FALSE]

Init ==
  /\ state = initialState
  /\ handlers = <<>>
  /\ loads = <<>>
  /\ probe = initialProbe
  /\ budget = [rounds |-> 0, upsets |-> 0]
  /\ match = noMatch
  /\ cache = newCache(TRUE)
  /\ retry = noRetry

RemoveAt(q, k) == SubSeq(q, 1, k - 1) \o SubSeq(q, k + 1, Len(q))

\* some earlier click's work is still pending
Busy == handlers # <<>> \/ loads # <<>>

MayClick == Busy => budget.upsets < MaxUpsets
Clicked(b) == [b EXCEPT !.upsets = IF Busy THEN @ + 1 ELSE @]

MayFail(outcome) == outcome # "hint" => budget.upsets < MaxUpsets
Replied(b, outcome) == [b EXCEPT !.upsets = IF outcome # "hint" THEN @ + 1 ELSE @]

(***************************************************************************)
(* The hint generators.  The model's text is one token; what the caller    *)
(* gets when the request fails is the generator's own fallback.            *)
(***************************************************************************)
fallbackHints ==
  << "Look at the colors and shapes...", "Think about where you'd find this...",
     "Consider what it's used for...", "Focus on its key features...",
     "This should be obvious now!" >>

\* gemini.js generateHintFromAI: resolves with the hint or, from its catch,
\* with fallbackHints[Math.min(level, fallbackHints.length - 1)]
AIHintOutcomes == {"hint", "failed"}

\* the catch returning the first fallback text whatever the level
generateHintFromAIFirstFallback(outcome, level) ==
  IF outcome = "hint" THEN "generated hint" ELSE fallbackHints[1]

generateHintFromAI(outcome, level) ==
  IF outcome = "hint" THEN "generated hint"
  ELSE fallbackHints[Min2(level, Len(fallbackHints) - 1) + 1]

\* advancedAnswerValidator.js generateContextualHint: the model's text (which
\* may be empty or shorter than 5 characters) or the fixed text after a failure
ContextualOutcomes == {"hint", "short", "failed"}

generateContextualHint(outcome) ==
  CASE outcome = "hint" -> "generated hint"
    [] outcome = "short" -> ""
    [] OTHER -> "Getting closer to the answer..."

(***************************************************************************)
(* loadNewImage (mount, Skip, Next)                                        *)
(***************************************************************************)
LoadNewImage ==
  /\ Len(loads) < MaxLoads
  /\ budget.rounds < MaxRounds
  /\ MayClick
  /\ state' = gameReducer(state, "RESET_GAME", "")
  /\ loads' = Append(loads, [pc |-> "fetch", description |-> EmptyString])
  /\ handlers' = [k \in 1..Len(handlers) |-> [handlers[k] EXCEPT !.fresh = FALSE]]
  /\ probe' = [initialProbe EXCEPT !.lastOp = "loadNewImage"]
  /\ budget' = [Clicked(budget) EXCEPT !.rounds = @ + 1]

\* fetchWithRetry resolved: lines 165-175, up to the await on the first hint
FetchSucceeds(k, description) ==
  /\ loads[k].pc = "fetch"
  /\ state' = Dispatch(state, << <<"SET_DESC", description>>,
                                 <<"SET_LABEL", description>>,
                                 <<"SET_HINT", "> Scanning image...">> >>)
  /\ loads' = [loads EXCEPT ![k] = [pc |-> "firstHint", description |-> description]]
  /\ probe' = [probe EXCEPT !.lastOp = "reply"]
  /\ UNCHANGED <<handlers, budget>>

\* fetchWithRetry rejected: the outer catch, lines 186-190
FetchFails(k) ==
  /\ loads[k].pc = "fetch"
  /\ MayFail("failed")
  /\ state' = Dispatch(state, << <<"SET_HINT", "> ERROR: Unable to load">>,
                                 <<"SET_LOADING", FALSE>> >>)
  /\ loads' = RemoveAt(loads, k)
  /\ probe' = [probe EXCEPT !.lastOp = "reply"]
  /\ budget' = Replied(budget, "failed")
  /\ UNCHANGED handlers

\* generateHintFromAI(description, 0, [], description) settled: lines 176-182
FirstHintArrives(k, outcome) ==
  /\ loads[k].pc = "firstHint"
  /\ MayFail(outcome)
  /\ state' = Dispatch(state, << <<"SET_HINT", "> " \o generateHintFromAI(outcome, 0)>>,
                                 <<"SET_LOADING", FALSE>> >>)
  /\ loads' = RemoveAt(loads, k)
  /\ probe' = [probe EXCEPT !.lastOp = "reply"]
  /\ budget' = Replied(budget, outcome)
  /\ UNCHANGED handlers

(***************************************************************************)
(* handleGuess.  snap is the `state` captured by the closure that was      *)
(* invoked; s is the reducer state the dispatches act on.                  *)
(***************************************************************************)
\* the guard without its test of state.loading
GuessIgnoredMutant(snap) == snap.revealed

\* line 229: if (state.revealed || state.loading) return;
GuessIgnored(snap) == snap.revealed \/ snap.loading

\* lines 249-257 and 335
CorrectBranch(s, snap) ==
  Dispatch(s, << <<"REVEAL_ANSWER", "">>, <<"SET_HINT", "> CORRECT!">> >>
              \o (IF snap.score > snap.highScore
                  THEN << <<"SET_HIGH_SCORE", snap.score>> >> ELSE <<>>)
              \o << <<"SET_GUESS", EmptyString>> >>)

\* the test of line 276 made on the attempts before the increment
EndsRoundMutant(snap) == snap.attempts >= MAX_ATTEMPTS

\* line 276: if (newAttempts >= MAX_ATTEMPTS)
EndsRound(snap) == snap.attempts + 1 >= MAX_ATTEMPTS

\* lines 268-287 (and 335 when the round ends)
WrongBranch(s, snap) ==
  LET newBlur == Max2(0, snap.blur - BLUR_DECREMENT)
      s1 == Dispatch(s, << <<"INCREMENT_ATTEMPTS", "">>,
                           <<"DECREMENT_SCORE", SCORE_DECREMENT>>,
                           <<"SET_BLUR", newBlur>> >>)
  IN  IF EndsRound(snap)
      THEN Dispatch(s1, << <<"REVEAL_ANSWER", "">>, <<"SET_SCORE", 0>>,
                           <<"SET_HINT", "> GAME OVER">>,
                           <<"SET_GUESS", EmptyString>> >>)
      ELSE Dispatch(s1, << <<"SET_HINT", "> Analyzing your guess...">> >>)

\* the history given the hint just generated instead of the one it replaces
HintBranchAppendsNewHint(s, snap, hintText) ==
  Dispatch(s, << <<"SET_HINT", hintText>>,
                 <<"SET_HINT_LEVEL", snap.hintLevel + 1>>,
                 <<"ADD_PREVIOUS_HINT", hintText>>,
                 <<"SET_GUESS", EmptyString>> >>)

\* lines 309-317 and 335
HintBranch(s, snap, hintText) ==
  Dispatch(s, << <<"SET_HINT", hintText>>,
                 <<"SET_HINT_LEVEL", snap.hintLevel + 1>>,
                 <<"ADD_PREVIOUS_HINT", snap.hint>>,
                 <<"SET_GUESS", EmptyString>> >>)

\* lines 244-285: a verdict reaches the invocation whose closure holds snap
AfterVerdict(s, snap, isValid) ==
  IF isValid THEN CorrectBranch(s, snap) ELSE WrongBranch(s, snap)

\* the invocation goes on to await generateContextualHint (line 292)
AwaitsHint(snap, isValid) == ~isValid /\ ~EndsRound(snap)

ProbeVerdict(p, h, isValid) ==
  [p EXCEPT !.accepted = @ \/ (isValid /\ h.fresh),
            !.wrongVerdicts = IF ~isValid /\ h.fresh THEN @ + 1 ELSE @,
            !.hintCalls = IF AwaitsHint(h.st, isValid) THEN @ + 1 ELSE @]

HandleGuessChange(value) ==
  /\ ~state.revealed
  /\ value # state.guess
  /\ state' = gameReducer(state, "SET_GUESS", value)
  /\ probe' = [probe EXCEPT !.lastOp = "handleGuessChange"]
  /\ UNCHANGED <<handlers, loads, budget>>

HandleGuess ==
  LET snap == state
      h == [pc |-> "verdict", st |-> snap, fresh |-> TRUE]
      s0 == gameReducer(state, "SET_HINT", "> Validating answer...")
      v == validateLocal(snap.guess, snap.label)
      called == [probe EXCEPT !.lastOp = "handleGuess",
                              !.validatorCalls = @ + 1]
  IN  IF GuessIgnored(snap)
      THEN /\ probe' = [probe EXCEPT !.lastOp = "handleGuess"]
           /\ UNCHANGED <<state, handlers, loads, budget>>
      ELSE /\ Len(handlers) < MaxInFlight
           /\ MayClick
           /\ budget' = Clicked(budget)
           /\ UNCHANGED loads
           /\ IF v.strategy = "AWAIT_JUDGE"
              THEN /\ state' = s0
                   /\ handlers' = Append(handlers, h)
                   /\ probe' = called
              ELSE /\ state' = AfterVerdict(s0, snap, v.isValid)
                   /\ handlers' = IF AwaitsHint(snap, v.isValid)
                                  THEN Append(handlers, [h EXCEPT !.pc = "contextualHint"])
                                  ELSE handlers
                   /\ probe' = ProbeVerdict(called, h, v.isValid)

\* the judge's reply (or failure) reaches validateAnswerAdvanced
VerdictArrives(k, resp) ==
  LET h == handlers[k]
      v == validateFinish(validateLocal(h.st.guess, h.st.label), resp)
  IN  /\ h.pc = "verdict"
      /\ state' = AfterVerdict(state, h.st, v.isValid)
      /\ handlers' = IF AwaitsHint(h.st, v.isValid)
                     THEN [handlers EXCEPT ![k].pc = "contextualHint"]
                     ELSE RemoveAt(handlers, k)
      /\ probe' = ProbeVerdict([probe EXCEPT !.lastOp = "reply"], h, v.isValid)
      /\ UNCHANGED <<loads, budget>>

\* generateContextualHint settled, lines 292-300: a text that is empty or
\* shorter than 5 sends the invocation on to await generateHintFromAI
ContextualHintArrives(k, outcome) ==
  LET h == handlers[k]
      nextHint == generateContextualHint(outcome)
  IN  /\ h.pc = "contextualHint"
      /\ MayFail(outcome)
      /\ budget' = Replied(budget, outcome)
      /\ probe' = [probe EXCEPT !.lastOp = "reply"]
      /\ UNCHANGED loads
      /\ IF outcome = "short"
         THEN /\ handlers' = [handlers EXCEPT ![k].pc = "aiHint"]
              /\ UNCHANGED state
         ELSE /\ handlers' = RemoveAt(handlers, k)
              /\ state' = HintBranch(state, h.st, "> " \o nextHint)

\* generateHintFromAI settled, lines 301-317
AIHintArrives(k, outcome) ==
  LET h == handlers[k]
      nextHint == generateHintFromAI(outcome, h.st.hintLevel + 1)
  IN  /\ h.pc = "aiHint"
      /\ state' = HintBranch(state, h.st, "> " \o nextHint)
      /\ handlers' = RemoveAt(handlers, k)
      /\ probe' = [probe EXCEPT !.lastOp = "reply"]
      /\ UNCHANGED <<loads, budget>>

(***************************************************************************)
(* The calls of CacheManager and fetchImageFromUnsplash (apiService.js)    *)
(***************************************************************************)
\* CacheManager.get(key), lines 41-70, up to its return or its await; op is
\* "get" for a direct call and "fetchImage" for the call made at line 38 of
\* apiService.js, which goes on to the network when get has nothing
CacheGet(op, key) ==
  /\ IF key \in DOMAIN cache.memoryCache
     THEN cache' = Returned(Used([cache EXCEPT !.accessOrder =
                                    updateAccessOrder(cache.accessOrder, key)],
                                 cache.used, key),
                            op, key, <<cache.memoryCache[key]>>)
     ELSE /\ Len(cache.calls) < MaxCalls
          /\ cache' =
               IF cache.dbOpen
               THEN [cache EXCEPT !.calls = Append(@,
                       [op |-> op, pc |-> "idb", key |-> key,
                        data |-> IF key \in DOMAIN cache.db
                                 THEN <<cache.db[key].value>> ELSE Nothing])]
               ELSE IF op = "get" THEN Returned(cache, op, key, Nothing)
               ELSE [cache EXCEPT !.calls = Append(@,
                       [op |-> op, pc |-> "network", key |-> key, data |-> Nothing])]
  /\ UNCHANGED <<roundVars, match, retry>>

\* request.onsuccess of get, lines 56-64, and the caller's continuation
IdbReplies(i) ==
  LET call == cache.calls[i]
      moved == IF call.data # Nothing
               THEN Used(setMemory(cache, call.key, call.data[1]), cache.used, call.key)
               ELSE cache
  IN  /\ call.pc = "idb"
      /\ cache' =
           IF call.op = "fetchImage" /\ call.data = Nothing
           THEN [moved EXCEPT !.calls[i].pc = "network"]
           ELSE Returned([moved EXCEPT !.calls = RemoveAt(@, i)],
                         call.op, call.key, call.data)
      /\ UNCHANGED <<roundVars, match, retry>>

\* fetchImageFromUnsplash, lines 43-69: the request to Unsplash settled
NetworkReplies(i, ok) ==
  LET call == cache.calls[i]
      done == [cache EXCEPT !.calls = RemoveAt(@, i)]
  IN  /\ call.pc = "network"
      /\ cache' =
           IF ok
           THEN Returned(Used(cacheSet(done, call.key, cache.now), cache.used, call.key),
                         "fetched", call.key, <<cache.now>>)
           ELSE Returned(done, "failed", call.key, Nothing)
      /\ UNCHANGED <<roundVars, match, retry>>

\* CacheManager.set(key, value) with a value obtained now
CacheSet(key) ==
  /\ cache' = Used(cacheSet(cache, key, cache.now), cache.used, key)
  /\ UNCHANGED <<roundVars, match, retry>>

\* CacheManager.clear, lines 123-138
CacheClear ==
  /\ cache.memoryCache # EmptyMap \/ cache.db # EmptyMap
  /\ cache' = [cache EXCEPT !.memoryCache = EmptyMap, !.accessOrder = <<>>,
                            !.db = IF cache.dbOpen THEN EmptyMap ELSE @,
                            !.used = <<>>]
  /\ UNCHANGED <<roundVars, match, retry>>

\* a day passes
Tick ==
  /\ cache.now < MaxDays * ttl
  /\ cache' = [cache EXCEPT !.now = @ + ttl]
  /\ UNCHANGED <<roundVars, match, retry>>

\* the cache after set(1), ..., set(n) made at time 0, for n up to
\* MEMORY_CACHE_SIZE: no entry has been evicted yet
Filled(open, n) ==
  [newCache(open) EXCEPT
     !.memoryCache = [k \in 1..n |-> 0],
     !.accessOrder = [i \in 1..n |-> i],
     !.db = IF open THEN [k \in 1..n |-> [value |-> 0, timestamp |-> 0]] ELSE EmptyMap,
     !.used = [i \in 1..n |-> i]]

InitCache ==
  /\ state = initialState
  /\ handlers = <<>>
  /\ loads = <<>>
  /\ probe = initialProbe
  /\ budget = [rounds |-> 0, upsets |-> 0]
  /\ match = noMatch
  /\ \E open \in BOOLEAN : \E n \in {0, MEMORY_CACHE_SIZE - 1} :
       cache = Filled(open, n)
  /\ retry = noRetry

NextCache ==
  \/ \E key \in CacheKeys : CacheGet("get", key)
  \/ \E key \in CacheKeys : CacheGet("fetchImage", key)
  \/ \E i \in 1..Len(cache.calls) : IdbReplies(i)
  \/ \E i \in 1..Len(cache.calls) : \E ok \in BOOLEAN : NetworkReplies(i, ok)
  \/ \E key \in CacheKeys : CacheSet(key)
  \/ CacheClear
  \/ Tick

SpecCache == InitCache /\ [][NextCache]_vars

(***************************************************************************)
(* The steps of fetchWithRetry                                             *)
(***************************************************************************)
\* the loop of line 137 arrives at its test with loop variable i: it calls
\* fn and awaits it, or the function ends without a return statement
RetryLoop(r, i) ==
  IF loopContinues(i, r.maxRetries)
  THEN [r EXCEPT !.i = i, !.pc = "awaitFn"]
  ELSE [r EXCEPT !.i = i, !.pc = "returned",
                 !.result = [kind |-> "undefined", value |-> ""]]

\* the call fetchWithRetry(fn, maxRetries, delay), up to its first await
FetchWithRetry ==
  /\ retry.pc = "called"
  /\ retry' = RetryLoop(retry, 0)
  /\ UNCHANGED <<roundVars, match, cache>>

\* line 139: fn() resolved
FnResolves(value) ==
  /\ retry.pc = "awaitFn"
  /\ retry' = [retry EXCEPT !.pc = "returned",
                            !.outcomes = Append(@, [kind |-> "value", value |-> value]),
                            !.result = [kind |-> "value", value |-> value]]
  /\ UNCHANGED <<roundVars, match, cache>>

\* lines 140-147: fn() rejected
FnRejects(error) ==
  LET failed == [retry EXCEPT !.outcomes = Append(@, [kind |-> "error", value |-> error])]
  IN  /\ retry.pc = "awaitFn"
      /\ retry' =
           IF isLastAttempt(retry.i, retry.maxRetries)
           THEN [failed EXCEPT !.pc = "thrown",
                               !.result = [kind |-> "error", value |-> error]]
           ELSE [failed EXCEPT !.pc = "awaitTimer",
                               !.timers = Append(@, backoff(retry.delay, retry.i))]
      /\ UNCHANGED <<roundVars, match, cache>>

\* the timer of line 146 fired: i++ and the next iteration
TimerFires ==
  /\ retry.pc = "awaitTimer"
  /\ retry' = RetryLoop(retry, retry.i + 1)
  /\ UNCHANGED <<roundVars, match, cache>>

InitRetry ==
  /\ state = initialState
  /\ handlers = <<>>
  /\ loads = <<>>
  /\ probe = initialProbe
  /\ budget = [rounds |-> 0, upsets |-> 0]
  /\ match = noMatch
  /\ cache = newCache(TRUE)
  /\ \E n \in 0..MaxRetries : \E d \in RetryDelays :
       retry = [noRetry EXCEPT !.maxRetries = n, !.delay = d, !.pc = "called"]

NextRetry ==
  \/ FetchWithRetry
  \/ \E value \in FnValues : FnResolves(value)
  \/ \E error \in FnErrors : FnRejects(error)
  \/ TimerFires

SpecRetry == InitRetry /\ [][NextRetry]_vars

(***************************************************************************)
(* Specifications                                                          *)
(***************************************************************************)
Completion ==
  \/ \E k \in 1..Len(loads) : \E d \in Descriptions : FetchSucceeds(k, d)
  \/ \E k \in 1..Len(loads) : FetchFails(k)
  \/ \E k \in 1..Len(loads) : \E o \in AIHintOutcomes : FirstHintArrives(k, o)
  \/ \E k \in 1..Len(handlers) : \E r \in RoundJudgeResponses : VerdictArrives(k, r)
  \/ \E k \in 1..Len(handlers) : \E o \in ContextualOutcomes : ContextualHintArrives(k, o)
  \/ \E k \in 1..Len(handlers) : \E o \in AIHintOutcomes : AIHintArrives(k, o)

\* any interleaving of clicks, keystrokes and replies
Next ==
  \/ LoadNewImage /\ UNCHANGED <<match, cache, retry>>
  \/ (\E value \in GuessInputs : HandleGuessChange(value)) /\ UNCHANGED <<match, cache, retry>>
  \/ HandleGuess /\ UNCHANGED <<match, cache, retry>>
  \/ Completion /\ UNCHANGED <<match, cache, retry>>

Spec == Init /\ [][Next]_vars

\* the player waits for every pending reply before the next click or key
Idle == ~Busy

NextSeq ==
  \/ Idle /\ LoadNewImage /\ UNCHANGED <<match, cache, retry>>
  \/ Idle /\ (\E value \in GuessInputs : HandleGuessChange(value)) /\ UNCHANGED <<match, cache, retry>>
  \/ Idle /\ HandleGuess /\ UNCHANGED <<match, cache, retry>>
  \/ Completion /\ UNCHANGED <<match, cache, retry>>

SpecSeq == Init /\ [][NextSeq]_vars

\* the image source and the judge answer (or fail) in the end; nothing makes
\* a hint generator answer: neither generateContextualHint nor
\* generateHintFromAI gives its fetch a timeout or an abort signal
ImageOrJudgeReplies ==
  /\ \/ \E k \in 1..Len(loads) : \E d \in Descriptions : FetchSucceeds(k, d)
     \/ \E k \in 1..Len(loads) : FetchFails(k)
     \/ \E k \in 1..Len(handlers) : \E r \in RoundJudgeResponses : VerdictArrives(k, r)
  /\ UNCHANGED <<match, cache, retry>>

SpecSeqFair == SpecSeq /\ WF_vars(ImageOrJudgeReplies)

(***************************************************************************)
(* validateAnswerAdvanced on its own, for every guess and answer of        *)
(* MatchInputs and every reply of the judge                                *)
(***************************************************************************)
RECURSIVE StringsUpTo(_)
StringsUpTo(n) ==
  IF n = 0 THEN {<<>>}
  ELSE LET shorter == StringsUpTo(n - 1)
       IN  shorter \cup {Append(w, c) : w \in {x \in shorter : Len(x) = n - 1},
                                        c \in Alphabet}

Repeat(c, n) == [i \in 1..n |-> c]

\* answers of LongLen characters, and guesses near them
LongInputs ==
  {Repeat("a", LongLen), Repeat("a", LongLen - 1) \o <<"b">>,
   Repeat("a", LongLen - 1), <<"b">> \o Repeat("a", LongLen - 1)}

\* "sunset" and "Sunset!!", "mountain" and "mountain ", over Alphabet
PhraseInputs ==
  {Repeat("a", 6), <<"A">> \o Repeat("a", 5) \o <<"!", "!">>,
   Repeat("b", 8), Repeat("b", 8) \o <<" ">>}

\* answers and guesses of two words: a word repeated, two words in either order
TokenInputs == {<<"a", " ", "a">>, <<"a", " ", "b">>, <<"b", " ", "a">>}

MatchInputs == StringsUpTo(MaxLen) \cup LongInputs \cup PhraseInputs \cup TokenInputs

InitMatch ==
  /\ state = initialState
  /\ handlers = <<>>
  /\ loads = <<>>
  /\ probe = initialProbe
  /\ budget = [rounds |-> 0, upsets |-> 0]
  /\ match \in [guess : MatchInputs, answer : MatchInputs, pc : {"called"},
                verdict : {NoVerdict}, judgeCalls : {0}, reply : {NoReply}]
  /\ cache = newCache(TRUE)
  /\ retry = noRetry

\* lines 127-201, and the request of lines 223-234 when no stage decided
Validate ==
  LET v == validateLocal(match.guess, match.answer)
  IN  /\ match.pc = "called"
      /\ match' = IF v.strategy = "AWAIT_JUDGE"
                  THEN [match EXCEPT !.pc = "judge", !.judgeCalls = @ + 1]
                  ELSE [match EXCEPT !.pc = "done", !.verdict = v]
      /\ UNCHANGED <<roundVars, cache, retry>>

\* lines 236-266
JudgeReplies(resp) ==
  /\ match.pc = "judge"
  /\ match' = [match EXCEPT !.pc = "done", !.reply = resp,
                 !.verdict = validateAnswerAdvanced(match.guess, match.answer, resp)]
  /\ UNCHANGED <<roundVars, cache, retry>>

NextMatch ==
  \/ Validate
  \/ \E resp \in JudgeResponses : JudgeReplies(resp)

SpecMatch == InitMatch /\ [][NextMatch]_vars

\* the calls on the short strings alone
InitMatchFair ==
  /\ InitMatch
  /\ Len(match.guess) <= MaxLen
  /\ Len(match.answer) <= MaxLen

\* the function's own steps are taken; nothing makes the judge reply: the
\* fetch of lines 223-234 carries no timeout and no abort signal
SpecMatchFair == InitMatchFair /\ [][NextMatch]_vars /\ WF_vars(Validate)

(***************************************************************************)
(* Properties of the round                                                 *)
(***************************************************************************)
\* the round accepts guesses
Active(s) == ~s.revealed /\ ~s.loading

\* a guess of this round is with the validator and has no verdict yet
VerdictPending ==
  \E k \in 1..Len(handlers) : handlers[k].pc = "verdict" /\ handlers[k].fresh

\* the step is an invocation of handleGuess
GuessSubmitted == probe'.lastOp = "handleGuess"

\* the step applies the verdict "wrong" to a guess of this round
WrongVerdictApplied == probe'.wrongVerdicts = probe.wrongVerdicts + 1

\* the step applies the first verdict "valid" to a guess of this round
ValidVerdictApplied == ~probe.accepted /\ probe'.accepted

C2_RoundBounds ==
  /\ 0 <= state.score /\ state.score <= INITIAL_SCORE
  /\ 0 <= state.blur /\ state.blur <= INITIAL_BLUR
  /\ 0 <= state.attempts /\ state.attempts <= MAX_ATTEMPTS

\* C3: a guess submitted while an earlier guess of the round awaits its
\* verdict is ignored: the validator is not called again and attempts,
\* score and blur stay as they are.
C3_SecondSubmissionIgnored ==
  [][ (GuessSubmitted /\ VerdictPending) =>
        /\ probe'.validatorCalls = probe.validatorCalls
        /\ state'.attempts = state.attempts
        /\ state'.score = state.score
        /\ state'.blur = state.blur ]_vars

\* C4: in every reachable state, revealed holds exactly when attempts is 5
\* or a guess of this round was accepted.
C4_RevealedIff ==
  state.revealed <=> (state.attempts = MAX_ATTEMPTS \/ probe.accepted)

\* C7: submitting a guess that is empty after trimming while the round is
\* active changes none of attempts, score, blur, hintLevel, hint,
\* previousHints and revealed.
C7_EmptyGuessNoOp ==
  [][ (GuessSubmitted /\ Active(state) /\ trim(state.guess) = EmptyString) =>
        /\ state'.attempts = state.attempts
        /\ state'.score = state.score
        /\ state'.blur = state.blur
        /\ state'.hintLevel = state.hintLevel
        /\ state'.hint = state.hint
        /\ state'.previousHints = state.previousHints
        /\ state'.revealed = state.revealed ]_vars

\* C8: every wrong verdict applied to a guess of an active round adds 1 to
\* attempts, makes score max(0, score - 15) and makes blur max(0, blur - 4).
C8_WrongGuessPenalty ==
  [][ (WrongVerdictApplied /\ Active(state)) =>
        /\ state'.attempts = state.attempts + 1
        /\ state'.score = Max2(0, state.score - SCORE_DECREMENT)
        /\ state'.blur = Max2(0, state.blur - BLUR_DECREMENT) ]_vars

\* C9: a valid verdict for a guess of the round reveals it with blur = 0,
\* leaves attempts and score as they are, and makes highScore the round's
\* score exactly when that score exceeds it.
C9_ValidVerdict ==
  [][ ValidVerdictApplied =>
        /\ state'.revealed
        /\ state'.blur = 0
        /\ state'.attempts = state.attempts
        /\ state'.score = state.score
        /\ state'.highScore = IF state.score > state.highScore
                              THEN state.score ELSE state.highScore ]_vars

\* C10: handleGuess invoked while the round is loading or revealed changes
\* no field of the state, suspends no invocation, and calls neither the
\* validator nor a hint generator.
C10_IgnoredGuessFrame ==
  [][ (GuessSubmitted /\ ~Active(state)) =>
        /\ state' = state
        /\ handlers' = handlers
        /\ loads' = loads
        /\ probe'.validatorCalls = probe.validatorCalls
        /\ probe'.hintCalls = probe.hintCalls ]_vars

\* handleGuess was invoked while the image was loading
C10_Witness ==
  /\ probe.lastOp = "handleGuess"
  /\ state.loading
  /\ probe.validatorCalls = 0

\* the step applies the result of a hint request made for a guess of this
\* round (the invocation that awaited it returns)
HintResultApplied ==
  /\ probe'.lastOp = "reply"
  /\ \E k \in 1..Len(handlers) :
       /\ handlers[k].pc \in {"contextualHint", "aiHint"}
       /\ handlers[k].fresh
       /\ handlers' = RemoveAt(handlers, k)

\* the step is the failure of the image source for a pending load
FetchFailed ==
  /\ probe'.lastOp = "reply"
  /\ \E k \in 1..Len(loads) :
       /\ loads[k].pc = "fetch"
       /\ loads' = RemoveAt(loads, k)

\* the step stays within the round (no RESET_GAME)
SameRound == probe'.lastOp # "loadNewImage"

\* C11: the result of a hint request that arrives when the round is already
\* revealed is discarded: hint, hintLevel and previousHints stay as they are.
C11_HintDiscardedOnceRevealed ==
  [][ (HintResultApplied /\ state.revealed) =>
        /\ state'.hint = state.hint
        /\ state'.hintLevel = state.hintLevel
        /\ state'.previousHints = state.previousHints ]_vars

\* C12: within a round, no step increases score or blur.
C12_ScoreBlurMonotone ==
  [][ SameRound =>
        /\ state'.score <= state.score
        /\ state'.blur <= state.blur ]_vars

\* C13: in every reachable state hintLevel <= attempts and hintLevel <= 4,
\* and hintLevel is 0 as long as no wrong verdict was applied in the round.
C13_HintLevelBounds ==
  /\ state.hintLevel <= state.attempts
  /\ state.hintLevel <= HINT_LEVEL_CAP
  /\ probe.wrongVerdicts = 0 => state.hintLevel = 0

\* C14: whenever the round accepts guesses (not loading, not revealed),
\* label and desc are non-empty.
C14_ActiveHasLabel ==
  Active(state) => state.label # EmptyString /\ state.desc # EmptyString

\* C15: when the image source fails, the round stays in LOADING: loading
\* remains true.
C15_FailedLoadStaysLoading ==
  [][ (FetchFailed /\ state.loading) => state'.loading ]_vars

(***************************************************************************)
(* Properties of validateAnswerAdvanced                                    *)
(***************************************************************************)
\* the form the matching rules are stated over: lower case, every character
\* outside [a-z0-9 ] removed, runs of blanks collapsed to one
RECURSIVE JoinTokens(_)
JoinTokens(tokens) ==
  IF tokens = <<>> THEN <<>>
  ELSE IF Len(tokens) = 1 THEN tokens[1]
  ELSE tokens[1] \o <<" ">> \o JoinTokens(Tail(tokens))

NormalForm(s) ==
  JoinTokens(SplitTokens(SelectSeq(toLowerCase(s), LAMBDA c : c \in {"a", "b", " "}),
                         <<>>, <<>>))

\* C5: a verdict with strategy FUZZY is given only when
\* 1 - d / max(len) >= 0.95, d the edit distance of the lower-cased,
\* trimmed guess and answer.
C5_FuzzyAboveThreshold ==
  (match.pc = "done" /\ match.verdict.strategy = "FUZZY") =>
    LET guess == trim(toLowerCase(match.guess))
        answer == trim(toLowerCase(match.answer))
        maxLen == Max2(Len(guess), Len(answer))
    IN  RatioGE(Ratio(maxLen - EditDistance(guess, answer), maxLen), 95, 100)

\* C6: a guess and an answer with the same non-empty normal form get the
\* verdict isValid = true, strategy EXACT, confidence 1.
C6_NormalizedExact ==
  (/\ match.pc = "done"
   /\ NormalForm(match.guess) = NormalForm(match.answer)
   /\ NormalForm(match.guess) # EmptyString) =>
    /\ match.verdict.isValid
    /\ match.verdict.strategy = "EXACT"
    /\ RatioEq(match.verdict.confidence, Ratio(1, 1))

\* the conditions of the four local stages, on the lower-cased, trimmed
\* guess g and answer a
ExactCond(g, a) == g = a

SubstringCond(g, a) ==
  /\ includes(g, a) \/ includes(a, g)
  /\ RatioGE(Ratio(Min2(Len(g), Len(a)), Max2(Len(g), Len(a))), 7, 10)

FuzzyCond(g, a) == RatioGE(fuzzyMatchScore(g, a), 95, 100)

JaccardCond(g, a) ==
  LET tg == tokenizeAndNormalize(g)
      ta == tokenizeAndNormalize(a)
  IN  /\ RatioGE(jaccardSimilarity(tg, ta), 95, 100)
      /\ RatioGE(Ratio(Min2(Len(tg), Len(ta)), Max2(Len(tg), Len(ta))), 6, 10)

\* C16: the judge is called at most once, and only for a non-empty guess
\* that the exact, substring, fuzzy and word-overlap checks all rejected;
\* each stage accepts only what the stages before it rejected; a guess that
\* satisfies the exact condition is decided at once, with no call of the
\* judge.
C16_CascadeOrder ==
  LET g == trim(toLowerCase(match.guess))
      a == trim(toLowerCase(match.answer))
      strategy == match.verdict.strategy
  IN  /\ match.judgeCalls <= 1
      /\ match.judgeCalls = 1 =>
           /\ g # EmptyString
           /\ ~ExactCond(g, a) /\ ~SubstringCond(g, a)
           /\ ~FuzzyCond(g, a) /\ ~JaccardCond(g, a)
      /\ (match.pc # "called" /\ ExactCond(g, a)) =>
           /\ match.pc = "done"
           /\ match.judgeCalls = 0
           /\ strategy = IF g = EmptyString THEN "EMPTY" ELSE "EXACT"
      /\ strategy = "SUBSTRING" => ~ExactCond(g, a) /\ SubstringCond(g, a)
      /\ strategy = "FUZZY" =>
           ~ExactCond(g, a) /\ ~SubstringCond(g, a) /\ FuzzyCond(g, a)
      /\ strategy = "JACCARD" =>
           /\ ~ExactCond(g, a) /\ ~SubstringCond(g, a)
           /\ ~FuzzyCond(g, a) /\ JaccardCond(g, a)

\* the judge was asked about a guess that shares no word with the answer
C16_Witness ==
  /\ match.pc = "judge"
  /\ match.judgeCalls = 1
  /\ match.guess = <<"b">>
  /\ match.answer = <<"a">>

\* the judge's reply is an object with isValid = true and a confidence of
\* at least 0.85
JudgeSaysValid(reply) ==
  /\ reply.kind = "object"
  /\ reply.isValid = "true"
  /\ reply.hasConfidence
  /\ reply.confidence >= 85

\* the request failed, or the reply lacks a field
JudgeFailed(reply) ==
  \/ reply.kind # "object"
  \/ reply.isValid = "missing"
  \/ ~reply.hasConfidence

\* the call went to the judge and has returned
JudgedRemotely == match.pc = "done" /\ match.judgeCalls = 1

C18_JudgeFailureRejects ==
  (JudgedRemotely /\ JudgeFailed(match.reply)) =>
    /\ ~match.verdict.isValid
    /\ match.verdict.strategy = "REJECTED"

\* the judge's text was not JSON and the call returned a rejection
C18_Witness ==
  /\ JudgedRemotely
  /\ match.reply.kind = "bad_json"
  /\ match.verdict.strategy = "REJECTED"

\* C19: every call of validateAnswerAdvanced eventually returns a verdict,
\* also when the judge never replies.
C19_CallReturns == <>(match.pc = "done")

\* C20: the confidence of every returned verdict is a number in [0, 1].
C20_ConfidenceInUnitInterval ==
  match.pc = "done" =>
    /\ ~IsNaN(match.verdict.confidence)
    /\ 0 <= match.verdict.confidence[1]
    /\ match.verdict.confidence[1] <= match.verdict.confidence[2]

\* C21: a call whose guess is empty in normal form returns at once, without
\* a request to the judge, the verdict isValid = false, confidence 0,
\* strategy REJECTED.
C21_EmptyGuessRejected ==
  (match.pc \in {"judge", "done"} /\ NormalForm(match.guess) = EmptyString) =>
    /\ match.pc = "done"
    /\ match.judgeCalls = 0
    /\ ~match.verdict.isValid
    /\ RatioEq(match.verdict.confidence, Ratio(0, 1))
    /\ match.verdict.strategy = "REJECTED"

C23_JaccardStage ==
  LET tg == tokenizeAndNormalize(trim(toLowerCase(match.guess)))
      ta == tokenizeAndNormalize(trim(toLowerCase(match.answer)))
      words1 == SeqRange(tg)
      words2 == SeqRange(ta)
      shared == Cardinality(words1 \cap words2)
      all == Cardinality(words1 \cup words2)
      counts == Ratio(Min2(Len(tg), Len(ta)), Max2(Len(tg), Len(ta)))
      strategy == match.verdict.strategy
  IN  /\ strategy = "JACCARD" =>
           /\ match.verdict.isValid
           /\ all > 0 /\ shared * 100 >= 95 * all
           /\ RatioGE(counts, 6, 10)
      /\ (words1 = words2 /\ ~RatioGE(counts, 6, 10)) => strategy # "JACCARD"

\* "a a" against "a": the same set of words, half the count of words; the
\* call went on to the judge and was rejected
C23_Witness ==
  /\ match.pc = "done"
  /\ match.guess = <<"a", " ", "a">>
  /\ match.answer = <<"a">>
  /\ match.verdict.strategy = "REJECTED"

(***************************************************************************)
(* Properties of the hints                                                 *)
(***************************************************************************)
\* the step ends the invocation k, which had no usable text from
\* generateContextualHint and now gets none from generateHintFromAI either
BothHintsFailed(k) ==
  /\ probe'.lastOp = "reply"
  /\ handlers[k].pc = "aiHint"
  /\ handlers' = RemoveAt(handlers, k)
  /\ state'.hint # "> generated hint"

AnalyzingGuess == "> Analyzing your guess..."

\* C25: once a wrong guess that did not end the round has put up
\* "Analyzing your guess...", the hint eventually becomes another text and
\* hintLevel is eventually advanced, also when the hint generator never
\* replies.
C25_HintEventuallyShown ==
  (state.hint = AnalyzingGuess) ~> (state.hint # AnalyzingGuess /\ state.hintLevel >= 1)

\* C26: Skip or Next pressed in an active or revealed round replaces it by
\* a fresh one (attempts 0, score 100, blur 20, hintLevel 0, no previous
\* hints, not revealed, loading, empty label and description) and leaves
\* the high score as it is.
C26_SkipStartsFreshRound ==
  [][ (probe'.lastOp = "loadNewImage" /\ ~state.loading) =>
        /\ state'.attempts = 0
        /\ state'.score = INITIAL_SCORE
        /\ state'.blur = INITIAL_BLUR
        /\ state'.hintLevel = 0
        /\ state'.previousHints = <<>>
        /\ ~state'.revealed
        /\ state'.loading
        /\ state'.label = EmptyString
        /\ state'.desc = EmptyString
        /\ state'.highScore = state.highScore ]_vars

\* Next was pressed after a round won at the first guess
C26_Witness ==
  /\ probe.lastOp = "loadNewImage"
  /\ state.highScore = INITIAL_SCORE
  /\ state.loading
  /\ state.attempts = 0

\* C27: in every reachable state, score = max(0, 100 - 15 * w), w the
\* number of wrong verdicts applied to guesses of the round so far.
C27_ScoreFormula ==
  state.score = Max2(0, INITIAL_SCORE - SCORE_DECREMENT * probe.wrongVerdicts)

\* C28: in every reachable state, blur = 0 exactly when the round is
\* revealed.
C28_BlurZeroIffRevealed ==
  state.blur = 0 <=> state.revealed

(***************************************************************************)
(* Properties of the cache                                                 *)
(***************************************************************************)
MemoryKeys(c) == DOMAIN c.memoryCache

CacheShape ==
  /\ Cardinality(MemoryKeys(cache)) <= MEMORY_CACHE_SIZE
  /\ SeqRange(cache.accessOrder) = MemoryKeys(cache)
  /\ Len(cache.accessOrder) = Cardinality(MemoryKeys(cache))

\* a step other than clear that takes keys out of the memory cache takes out
\* exactly the key whose last use (set, or get answered from memory) is the
\* oldest, and it does so when the memory cache was full
EvictsLeastRecentlyUsed ==
  LET gone == MemoryKeys(cache) \ MemoryKeys(cache')
  IN  gone # {} /\ MemoryKeys(cache') # {} =>
        /\ gone = {Head(cache.used)}
        /\ Cardinality(MemoryKeys(cache)) = MEMORY_CACHE_SIZE
        /\ Cardinality(MemoryKeys(cache')) = MEMORY_CACHE_SIZE

\* C29: after any sequence of get, set and clear calls the memory cache holds
\* at most MEMORY_CACHE_SIZE (50) entries and accessOrder lists exactly the
\* keys of the memory cache, each once; when a set pushes the size over 50,
\* the entry evicted is the least recently used one (least recent set or get
\* answered from memory).
C29_LruMemoryCache == [](CacheShape) /\ [][EvictsLeastRecentlyUsed]_vars

\* the memory cache is full and key 2 was evicted from it while key 1, set
\* before it but read since, is still there
C29_Witness ==
  /\ Cardinality(MemoryKeys(cache)) = MEMORY_CACHE_SIZE
  /\ 1 \in MemoryKeys(cache)
  /\ 2 \notin MemoryKeys(cache)
  /\ cache.accessOrder # <<>>

\* the age, at the time it was handed out, of the value last handed out
ReturnedAge == cache.returned.at - cache.returned.data[1]

\* C30: a cache entry older than the configured ttl (24 hours) has expired:
\* CacheManager.get, and so fetchImageFromUnsplash, never hands it out (a
\* value that fetchImageFromUnsplash returns is either at most ttl old or
\* comes from a new request).
C30_ExpiredEntryNotReturned ==
  cache.returned.op \in {"get", "fetchImage"} /\ cache.returned.data # Nothing
    => ReturnedAge <= ttl

\* the arguments validateAnswerAdvanced hands to fuzzyMatchScore, and so to
\* levenshteinDistance: the lower-cased, trimmed guess and answer
FuzzyGuess == trim(toLowerCase(match.guess))
FuzzyAnswer == trim(toLowerCase(match.answer))

\* C31: levenshteinDistance(a, b) is the standard edit distance of a and b
\* (insertion, deletion and substitution each of cost 1), and it is the
\* length of the other string when one of them is empty.
C31_LevenshteinIsEditDistance ==
  match.pc # "called" =>
    /\ levenshteinDistance(FuzzyGuess, FuzzyAnswer)
         = EditDistance(FuzzyGuess, FuzzyAnswer)
    /\ FuzzyGuess = EmptyString =>
         levenshteinDistance(FuzzyGuess, FuzzyAnswer) = Len(FuzzyAnswer)
    /\ FuzzyAnswer = EmptyString =>
         levenshteinDistance(FuzzyGuess, FuzzyAnswer) = Len(FuzzyGuess)

\* the token lists validateAnswerAdvanced hands to jaccardSimilarity
GuessTokens == tokenizeAndNormalize(FuzzyGuess)
AnswerTokens == tokenizeAndNormalize(FuzzyAnswer)

\* the call got as far as line 187: no earlier stage returned
ReachedJaccard ==
  \/ match.pc = "judge"
  \/ match.pc = "done" /\ match.verdict.strategy \in {"JACCARD", "GEMINI_SEMANTIC", "REJECTED"}

\* C32: jaccardSimilarity never divides by zero: for two empty token lists
\* (an empty union) it returns 0, and for all token lists it returns a number
\* in [0, 1].
C32_JaccardDefined ==
  ReachedJaccard =>
    LET similarity == jaccardSimilarity(GuessTokens, AnswerTokens)
    IN  /\ ~IsNaN(similarity)
        /\ 0 <= similarity[1]
        /\ similarity[1] <= similarity[2]
        /\ (GuessTokens = <<>> /\ AnswerTokens = <<>>) =>
             RatioEq(similarity, Ratio(0, 1))

\* C33: when no stage accepts a non-empty guess the verdict is
\* isValid = false, strategy REJECTED, and its confidence is the number
\* max(fuzzyScore, jaccardScore) of that guess and answer.  (The round reads
\* only isValid of a verdict, so the confidence neither changes the score nor
\* grants acceptance.)
C33_RejectedConfidence ==
  (match.pc = "done" /\ ~match.verdict.isValid /\ FuzzyGuess # EmptyString) =>
    /\ match.verdict.strategy = "REJECTED"
    /\ RatioEq(match.verdict.confidence,
               RatioMax(fuzzyMatchScore(FuzzyGuess, FuzzyAnswer),
                        jaccardSimilarity(GuessTokens, AnswerTokens)))

(***************************************************************************)
(* Properties of the round: history, rounds, high score                    *)
(***************************************************************************)
\* the step is the return of invocation k from its wait for a hint
HintStageReturns(k) ==
  /\ probe'.lastOp = "reply"
  /\ handlers[k].pc \in {"contextualHint", "aiHint"}
  /\ handlers' = RemoveAt(handlers, k)

\* C34: within one round the hint history only grows by appending: the
\* return of an invocation of handleGuess for a wrong guess that did not end
\* the round appends exactly one entry, the hint text that was displayed when
\* that guess was submitted, and no other step of the round removes,
\* replaces, reorders or adds entries.
C34_HintHistoryAppendOnly ==
  [][ SameRound =>
        /\ (\E k \in 1..Len(handlers) : HintStageReturns(k)) =>
             \E k \in 1..Len(handlers) :
               /\ HintStageReturns(k)
               /\ state'.previousHints =
                    Append(state.previousHints, handlers[k].st.hint)
        /\ ~(\E k \in 1..Len(handlers) : HintStageReturns(k)) =>
             state'.previousHints = state.previousHints
        /\ (GuessSubmitted /\ Len(handlers') > Len(handlers)) =>
             handlers'[Len(handlers')].st.hint = state.hint ]_vars

\* two wrong guesses of a round have each put the hint they replaced into
\* the history
C34_Witness ==
  /\ Len(state.previousHints) = 2
  /\ state.previousHints[1] # state.previousHints[2]
  /\ probe.wrongVerdicts = 2

\* the step is a reply reaching invocation k of handleGuess, which was made
\* in an earlier round
StaleInvocationResumes(k) ==
  /\ probe'.lastOp = "reply"
  /\ ~handlers[k].fresh
  /\ \/ handlers' = RemoveAt(handlers, k)
     \/ /\ Len(handlers') = Len(handlers)
        /\ handlers' # handlers
        /\ handlers' = [handlers EXCEPT ![k].pc = handlers'[k].pc]

\* C35: a verdict or hint result requested during one round is never applied
\* to a later round: the reply to an invocation made before Skip / Next
\* leaves the new round's attempts, score, blur, hintLevel, hint history and
\* revealed flag as they are.
C35_StaleReplyNotApplied ==
  [][ (\E k \in 1..Len(handlers) : StaleInvocationResumes(k)) =>
        /\ state'.attempts = state.attempts
        /\ state'.score = state.score
        /\ state'.blur = state.blur
        /\ state'.hintLevel = state.hintLevel
        /\ state'.previousHints = state.previousHints
        /\ state'.revealed = state.revealed ]_vars

\* C36: the high score never decreases: no step (guess, verdict arriving
\* late, Skip, Next) takes highScore below the value it has, and RESET_GAME
\* leaves it as it is.
C36_HighScoreNeverDecreases ==
  [][ /\ state'.highScore >= state.highScore
      /\ probe'.lastOp = "loadNewImage" => state'.highScore = state.highScore ]_vars

\* C37: every verdict with isValid = true has a confidence of at least 0.7,
\* the lowest acceptance threshold of any stage, and a strategy other than
\* REJECTED; every verdict with strategy REJECTED has isValid = false.
C37_ValidMeansConfident ==
  match.pc = "done" =>
    /\ match.verdict.isValid =>
         /\ RatioGE(match.verdict.confidence, 7, 10)
         /\ match.verdict.strategy # "REJECTED"
    /\ match.verdict.strategy = "REJECTED" => ~match.verdict.isValid

\* the judge accepted a guess with the lowest confidence it can accept with
C37_Witness ==
  /\ match.pc = "done"
  /\ match.verdict.isValid
  /\ match.verdict.strategy = "GEMINI_SEMANTIC"
  /\ match.verdict.confidence = Ratio(85, 100)

(***************************************************************************)
(* Properties of fetchWithRetry                                            *)
(***************************************************************************)
\* the calls of fn made so far, the one being awaited included
FnCalls == Len(retry.outcomes) + (IF retry.pc = "awaitFn" THEN 1 ELSE 0)

FnFailures ==
  Cardinality({j \in 1..Len(retry.outcomes) : retry.outcomes[j].kind = "error"})

\* C38: fetchWithRetry(fn, n, delay) calls fn at most n times; it returns the
\* result of the first successful call and calls fn no more; after n failed
\* calls it throws the error of the last call (n >= 1: with n = 0 there is no
\* call); after failed call i (counted from 0) that is not the last it waits
\* delay * 2^i before the next call.
C38_RetryContract ==
  retry.pc # "idle" =>
    /\ FnCalls <= retry.maxRetries
    /\ \A j \in 1..(Len(retry.outcomes) - 1) : retry.outcomes[j].kind = "error"
    /\ (retry.outcomes # <<>> /\ retry.outcomes[Len(retry.outcomes)].kind = "value") =>
         /\ retry.pc = "returned"
         /\ retry.result = retry.outcomes[Len(retry.outcomes)]
    /\ retry.maxRetries >= 1 =>
         /\ retry.pc = "returned" =>
              /\ retry.outcomes # <<>>
              /\ retry.result = retry.outcomes[Len(retry.outcomes)]
              /\ retry.result.kind = "value"
         /\ retry.pc = "thrown" <=> FnFailures = retry.maxRetries
         /\ retry.pc = "thrown" => retry.result = retry.outcomes[retry.maxRetries]
    /\ Len(retry.timers) = IF retry.pc = "thrown" THEN FnFailures - 1 ELSE FnFailures
    /\ \A j \in 1..Len(retry.timers) : retry.timers[j] = retry.delay * 2^(j - 1)

\* three calls with the default delay failed, the last with another error
\* than the first, after waits of one and of two seconds
C38_Witness ==
  /\ retry.pc = "thrown"
  /\ retry.maxRetries = 3
  /\ retry.timers = <<1000, 2000>>
  /\ retry.outcomes[1].value = "error 1"
  /\ retry.result = [kind |-> "error", value |-> "error 2"]

====
